---- MODULE Spec2Model ----
(***************************************************************************)
(* A model of app.py: the Google Form auto filler.                         *)
(*                                                                         *)
(*   extract_questions_from_fb_data   SpecExtract                          *)
(*   generate_answers                 SpecGen                              *)
(*   fill_form                        SpecFill                             *)
(*   the Streamlit script (reruns)    SpecUI                               *)
(*                                                                         *)
(* Python strings are sequences of one-character strings.  A dict is a     *)
(* record; a key that is absent from the dict is absent from the record's  *)
(* DOMAIN.                                                                 *)
(***************************************************************************)
EXTENDS Integers, Sequences, FiniteSets, TLC

VARIABLES
    html,        \* extract: the page source handed to the extractor
    extracted,   \* extract: outcome of extract_questions_from_fb_data
    questions,   \* generate/fill: the list of question records
    gen,         \* generate: control state of generate_answers
    page,        \* fill: the live DOM of the form
    fill,        \* fill: control state and effects of fill_form
    ui           \* Streamlit: session state, widget state and browsers

vars == <<html, extracted, questions, gen, page, fill, ui>>

Idle == [pc |-> "idle"]

----------------------------------------------------------------------------
(* Strings: str.lower, str.strip, re.sub(r'[^\w\s]', '', s), `in`.         *)

UpperChars == <<"A", "B", "C", "E">>
LowerChars == <<"a", "b", "c", "e">>
WordChars == {"a", "b", "c", "d", "e", "o", "r", "u", "A", "B", "C", "E", "_", "1"}
SpaceChars == {" "}

Lower(c) ==
    IF \E k \in 1..Len(UpperChars) : UpperChars[k] = c
    THEN LowerChars[CHOOSE k \in 1..Len(UpperChars) : UpperChars[k] = c]
    ELSE c

LowerStr(s) == [k \in 1..Len(s) |-> Lower(s[k])]

Strip(s) ==
    LET keep == {k \in 1..Len(s) : s[k] \notin SpaceChars}
    IN  IF keep = {} THEN <<>>
        ELSE SubSeq(s, CHOOSE k \in keep : \A m \in keep : k <= m,
                       CHOOSE k \in keep : \A m \in keep : k >= m)

KeepWordOrSpace(c) == c \in WordChars \/ c \in SpaceChars

Normalize(s) == Strip(SelectSeq(LowerStr(s), KeepWordOrSpace))

\* t in s
Contains(s, t) ==
    \E k \in 0..(Len(s) - Len(t)) : SubSeq(s, k + 1, k + Len(t)) = t

StartsWith(s, p) == Len(s) >= Len(p) /\ SubSeq(s, 1, Len(p)) = p

----------------------------------------------------------------------------
(* difflib.SequenceMatcher(None, a, b).ratio() for strings shorter than    *)
(* the autojunk length: 2 * (matched characters) / (len(a) + len(b)),      *)
(* kept as an exact fraction.  Indices are Python's (0-based, half open).  *)

Min2(x, y) == IF x <= y THEN x ELSE y

FindLongestMatch(a, b, alo, ahi, blo, bhi) ==
    LET blocks == {m \in ((alo..(ahi - 1)) \X (blo..(bhi - 1))
                              \X (1..Min2(ahi - alo, bhi - blo))) :
                      /\ m[1] + m[3] <= ahi
                      /\ m[2] + m[3] <= bhi
                      /\ \A d \in 1..m[3] : a[m[1] + d] = b[m[2] + d]}
    IN  IF blocks = {} THEN <<alo, blo, 0>>
        ELSE CHOOSE m \in blocks :
                \A n \in blocks :
                    \/ m[3] > n[3]
                    \/ m[3] = n[3] /\ m[1] < n[1]
                    \/ m[3] = n[3] /\ m[1] = n[1] /\ m[2] <= n[2]

RECURSIVE MatchCount(_, _, _, _, _, _)
MatchCount(a, b, alo, ahi, blo, bhi) ==
    LET m == FindLongestMatch(a, b, alo, ahi, blo, bhi)
    IN  IF m[3] = 0 THEN 0
        ELSE m[3]
             + (IF alo < m[1] /\ blo < m[2]
                THEN MatchCount(a, b, alo, m[1], blo, m[2]) ELSE 0)
             + (IF m[1] + m[3] < ahi /\ m[2] + m[3] < bhi
                THEN MatchCount(a, b, m[1] + m[3], ahi, m[2] + m[3], bhi) ELSE 0)

Ratio(a, b) ==
    IF Len(a) + Len(b) = 0 THEN [num |-> 1, den |-> 1]
    ELSE [num |-> 2 * MatchCount(a, b, 0, Len(a), 0, Len(b)),
          den |-> Len(a) + Len(b)]

ScoreGt(x, y) == x.num * y.den > y.num * x.den

ZeroScore == [num |-> 0, den |-> 1]

----------------------------------------------------------------------------
(* extract_questions_from_fb_data.                                         *)
(* A parsed JSON value is a record [t, v]: t is its Python type, v its     *)
(* items (list), its characters (str), or <<>> (None, a number, a dict:    *)
(* a dict's keys are strings, which is all the extractor can observe).     *)

JNull == [t |-> "null", v |-> <<>>]
JNum == [t |-> "num", v |-> <<>>]
JObj == [t |-> "obj", v |-> <<>>]
JStr(s) == [t |-> "str", v |-> s]
JList(s) == [t |-> "list", v |-> s]

\* x[k] for a Python index k >= 0
PyIndex(x, k) ==
    CASE x.t = "list" ->
            IF k < Len(x.v) THEN [ok |-> TRUE, val |-> x.v[k + 1]]
            ELSE [ok |-> FALSE, exc |-> "IndexError"]
      [] x.t = "str" ->
            IF k < Len(x.v) THEN [ok |-> TRUE, val |-> JStr(<<x.v[k + 1]>>)]
            ELSE [ok |-> FALSE, exc |-> "IndexError"]
      [] x.t = "obj" -> [ok |-> FALSE, exc |-> "KeyError"]
      [] OTHER -> [ok |-> FALSE, exc |-> "TypeError"]

\* what `for item in x` yields
PyIter(x) ==
    CASE x.t = "list" -> [ok |-> TRUE, items |-> x.v]
      [] x.t = "str" -> [ok |-> TRUE, items |-> [k \in 1..Len(x.v) |-> JStr(<<x.v[k]>>)]]
      [] x.t = "obj" -> [ok |-> TRUE, items |-> <<>>]
      [] OTHER -> [ok |-> FALSE, exc |-> "TypeError"]

RECURSIVE Flatten(_)
Flatten(ss) == IF ss = <<>> THEN <<>> ELSE Head(ss) \o Flatten(Tail(ss))

\* lines 91-93: the option texts of one block's item[1]
OptTexts(opts) ==
    Flatten([k \in 1..Len(opts) |->
        IF opts[k].t = "list" /\ Len(opts[k].v) > 0 /\ opts[k].v[1].t = "str"
        THEN <<opts[k].v[1].v>> ELSE <<>>])

\* lines 87-93
Choices(item) ==
    IF Len(item.v) > 4 /\ item.v[5].t = "list"
    THEN Flatten([k \in 1..Len(item.v[5].v) |->
            LET block == item.v[5].v[k]
            IN  IF block.t = "list" /\ Len(block.v) > 1 /\ block.v[2].t = "list"
                THEN OptTexts(block.v[2].v) ELSE <<>>])
    ELSE <<>>

\* lines 80-97: the records one raw entry contributes (none or one)
EntryRecords(item) ==
    IF item.t # "list" \/ Len(item.v) < 2 THEN <<>>
    ELSE IF item.v[2].t # "str" \/ item.v[2].v = <<>> THEN <<>>
    ELSE <<[question_text |-> Strip(item.v[2].v), options |-> Choices(item)]>>

Returned(v) == [status |-> "returned", value |-> v]
Raised(e) == [status |-> "raised", exc |-> e]

ExtractQuestions(h) ==
    IF ~h.found THEN Returned(<<>>)
    ELSE IF ~h.parses THEN Returned(<<>>)
    ELSE LET d1 == PyIndex(h.data, 1)
             d2 == PyIndex(d1.val, 1)
             it == PyIter(d2.val)
         IN  IF ~d1.ok
             THEN (IF d1.exc \in {"IndexError", "TypeError"}
                   THEN Returned(<<>>) ELSE Raised(d1.exc))
             ELSE IF ~d2.ok
             THEN (IF d2.exc \in {"IndexError", "TypeError"}
                   THEN Returned(<<>>) ELSE Raised(d2.exc))
             ELSE IF ~it.ok THEN Raised(it.exc)
             ELSE Returned(Flatten([k \in 1..Len(it.items) |->
                                        EntryRecords(it.items[k])]))

(* The inputs of the extractor. *)
MaxEntries == 2

SeqsUpTo(S, n) == UNION {[1..k -> S] : k \in 0..n}

RawTexts == {JNull, JNum, JStr(<<>>), JStr(<<" ">>), JStr(<<"a">>),
             JStr(<<" ", "a", " ">>)}

RawOptionFields ==
    { JNum,
      JList(<<JList(<<JNum, JList(<<JList(<<JStr(<<"a">>)>>),
                                    JList(<<JStr(<<"B">>)>>)>>)>>)>>),
      JList(<<JNum, JList(<<JNum>>), JList(<<JNum, JNum>>),
              JList(<<JNum, JList(<<JList(<<JNum>>), JList(<<>>), JStr(<<"a">>),
                                    JList(<<JStr(<<"b">>)>>)>>)>>)>>) }

RawEntries ==
    {JNum, JStr(<<"a">>), JList(<<JNum>>)}
    \cup {JList(<<JNum, t>>) : t \in RawTexts}
    \cup {JList(<<JNum, t, JNum, JNum, o>>) : t \in RawTexts, o \in RawOptionFields}

RawQuestionLists ==
    {JNull, JNum, JObj, JStr(<<"a", "b">>)}
    \cup {JList(s) : s \in SeqsUpTo(RawEntries, MaxEntries)}

RawSecond ==
    {JNull, JNum, JObj, JStr(<<"a">>), JStr(<<"a", "b">>), JList(<<JNum>>)}
    \cup {JList(<<JNum, q>>) : q \in RawQuestionLists}

RawData == {JList(<<>>), JList(<<JNum>>)} \cup {JList(<<JNum, s>>) : s \in RawSecond}

HtmlInputs ==
    {[found |-> FALSE, parses |-> FALSE, data |-> JNull],
     [found |-> TRUE, parses |-> FALSE, data |-> JNull]}
    \cup {[found |-> TRUE, parses |-> TRUE, data |-> d] : d \in RawData}

Pending == [status |-> "pending"]

InitExtract ==
    /\ html \in HtmlInputs
    /\ extracted = Pending
    /\ questions = <<>>
    /\ gen = Idle
    /\ page = <<>>
    /\ fill = Idle
    /\ ui = Idle

ExtractCall ==
    /\ extracted = Pending
    /\ extracted' = ExtractQuestions(html)
    /\ UNCHANGED <<html, questions, gen, page, fill, ui>>

NextExtract == ExtractCall

SpecExtract == InitExtract /\ [][NextExtract]_vars

----------------------------------------------------------------------------
(* generate_answers.                                                       *)

ErrorPrefix == <<"E", "r", "r", "o", "r", ":", " ">>

CouldNotPrefix ==
    <<"C", "o", "u", "l", "d", " ", "n", "o", "t", " ", "g", "e", "n", "e", "r",
      "a", "t", "e", " ", "a", "n", "s", "w", "e", "r", " ", "d", "u", "e", " ",
      "t", "o", " ">>

\* str(e) of the AttributeError raised by None.strip(), abbreviated
NoTextMsg == <<"N", "o", "n", "e">>

HasAnswer(q) == "gemini_answer" \in DOMAIN q

\* q["gemini_answer"] = a
SetAnswerDropOptions(q, a) ==
    [question_text |-> q.question_text, options |-> <<>>, gemini_answer |-> a]

SetAnswer(q, a) ==
    [question_text |-> q.question_text, options |-> q.options, gemini_answer |-> a]

\* lines 155-160: the first option equal to the answer ignoring case
ExactOption(options, answer) ==
    LET eq == {j \in 1..Len(options) : LowerStr(options[j]) = LowerStr(answer)}
    IN  IF eq = {} THEN 0 ELSE CHOOSE j \in eq : \A m \in eq : j <= m

\* line 165: max(options, key=ratio), the first option of maximal ratio
BestMatchRaw(options, answer) == answer

BestMatch(options, answer) ==
    LET r(j) == Ratio(LowerStr(options[j]), LowerStr(answer))
        j == CHOOSE j \in 1..Len(options) :
                /\ \A m \in 1..Len(options) : ~ScoreGt(r(m), r(j))
                /\ \A m \in 1..(j - 1) : ScoreGt(r(j), r(m))
    IN  options[j]

\* lines 151-166
Reconcile(options, text) ==
    LET answer == Strip(text)
    IN  IF options = <<>> THEN answer
        ELSE IF ExactOption(options, answer) # 0
        THEN options[ExactOption(options, answer)]
        ELSE BestMatch(options, answer)

\* lines 170-172: the inner handler; the loop goes on with the next question
OnAskErrorAbort(qs, k, msg) ==
    [qs |-> [qs EXCEPT ![k] = SetAnswer(qs[k], ErrorPrefix \o msg)],
     next |-> Len(qs) + 1]

OnAskError(qs, k, msg) ==
    [qs |-> [qs EXCEPT ![k] = SetAnswer(qs[k], ErrorPrefix \o msg)],
     next |-> k + 1]

\* lines 176-182: the outer handler
OnOuterError(qs, msg) ==
    [k \in 1..Len(qs) |->
        IF HasAnswer(qs[k]) THEN qs[k]
        ELSE SetAnswer(qs[k], ErrorPrefix \o CouldNotPrefix \o msg)]

(* The inputs of generate_answers: records as the extractor builds them,   *)
(* and what the model call does for each question.                         *)
MaxGenQuestions == 2

GenOptionLists ==
    {<<<<"a">>, <<"B">>>>, <<<<"B">>, <<"a">>>>, <<<<"a">>, <<"A">>>>,
     <<<<"a", "b", "c">>, <<"b">>>>}

GenRecords ==
    {[question_text |-> <<"a">>, options |-> <<>>]}
    \cup {[question_text |-> <<"b">>, options |-> o] : o \in GenOptionLists}

ModelTexts ==
    {<<>>, <<" ", "A", " ">>, <<"b">>, <<"b", "!">>, <<"a", "b">>, <<"c", "b">>}

ModelReplies ==
    {[kind |-> "text", text |-> t] : t \in ModelTexts}
    \cup {[kind |-> "raise", text |-> <<"e">>], [kind |-> "notext", text |-> <<>>]}

InitGen ==
    /\ html = [found |-> FALSE, parses |-> FALSE, data |-> JNull]
    /\ extracted = Idle
    /\ questions \in (SeqsUpTo(GenRecords, MaxGenQuestions) \ {<<>>})
    /\ gen = [pc |-> "start", idx |-> 1, input |-> questions, client |-> FALSE,
              asked |-> <<>>, replies |-> <<>>]
    /\ page = <<>>
    /\ fill = Idle
    /\ ui = Idle

\* lines 104-112: genai.Client(...) returns
GenClientOk ==
    /\ gen.pc = "start"
    /\ gen' = [gen EXCEPT !.pc = "loop", !.client = TRUE]
    /\ UNCHANGED <<html, extracted, questions, page, fill, ui>>

\* lines 104-112 and 176-182: genai.Client(...) raises
GenClientFails ==
    /\ gen.pc = "start"
    /\ questions' = OnOuterError(questions, <<"e">>)
    /\ gen' = [gen EXCEPT !.pc = "returned"]
    /\ UNCHANGED <<html, extracted, page, fill, ui>>

\* lines 114-172: one iteration of the loop
GenAsk ==
    /\ gen.pc = "loop"
    /\ gen.idx <= Len(questions)
    /\ \E reply \in ModelReplies :
        LET k == gen.idx
            failed == OnAskError(questions, k,
                        IF reply.kind = "raise" THEN reply.text ELSE NoTextMsg)
        IN  /\ questions' =
                IF reply.kind = "text"
                THEN [questions EXCEPT ![k] =
                        SetAnswer(@, Reconcile(questions[k].options, reply.text))]
                ELSE failed.qs
            /\ gen' = [gen EXCEPT
                        !.idx = IF reply.kind = "text" THEN k + 1 ELSE failed.next,
                        !.asked = Append(@, k),
                        !.replies = Append(@, reply)]
    /\ UNCHANGED <<html, extracted, page, fill, ui>>

\* line 174
GenReturn ==
    /\ gen.pc = "loop"
    /\ gen.idx > Len(questions)
    /\ gen' = [gen EXCEPT !.pc = "returned"]
    /\ UNCHANGED <<html, extracted, questions, page, fill, ui>>

NextGen == GenClientOk \/ GenClientFails \/ GenAsk \/ GenReturn

SpecGen == InitGen /\ [][NextGen]_vars

----------------------------------------------------------------------------
(* fill_form.                                                              *)
(* A question container of the live page is a record                       *)
(*   sel      which of the four option selectors (lines 221-227) is the    *)
(*            first to find widgets,                                       *)
(*   widgets  the option widgets it finds, in DOM order,                   *)
(*   inputs   the kinds of input element the container holds,              *)
(*   raises   the DOM calls that raise in this container: "none", "find"   *)
(*            (find_element(s)), "text" (.text, get_attribute) or "act"    *)
(*            (click, clear, send_keys).                                   *)
(* A widget is [text, children, aria]: its .text, the .text of its div     *)
(* descendants, and its aria-label (NoAttr when get_attribute gives None). *)
(* An element is named by its container's index and its index in it.       *)

NoAttr == [present |-> FALSE, v |-> <<>>]
Attr(s) == [present |-> TRUE, v |-> s]

LiveFloorPct == 60
OptionsFloorPct == 50

Pct(n) == [num |-> n, den |-> 100]

SetMin(S) == CHOOSE x \in S : \A y \in S : x <= y
SetMax(S) == CHOOSE x \in S : \A y \in S : x >= y

RECURSIVE SortedSeq(_)
SortedSeq(S) == IF S = {} THEN <<>> ELSE <<SetMin(S)>> \o SortedSeq(S \ {SetMin(S)})

\* line 209: q.get("gemini_answer", "").strip()
AnswerOf(q) == IF HasAnswer(q) THEN Strip(q.gemini_answer) ELSE <<>>

\* lines 221-227: the widgets of the first selector that finds any
OptionElements(cont) == cont.widgets

\* lines 250-262: the label text of a widget
FirstNonEmpty(texts) ==
    LET full == SelectSeq(texts, LAMBDA t : t # <<>>)
    IN  IF full = <<>> THEN <<>> ELSE full[1]

LabelOrElse(own, other) == IF own # <<>> THEN own ELSE other

LabelOf(w) ==
    LabelOrElse(Strip(w.text),
        LabelOrElse(FirstNonEmpty([k \in 1..Len(w.children) |-> Strip(w.children[k])]),
                    IF w.aria.present THEN w.aria.v ELSE <<>>))

\* lines 265-266: whether a widget is stored in option_dict, and its key
LabelEntry(label) == [has |-> label # <<>>, norm |-> Normalize(label)]

Labels(widgets) == [j \in 1..Len(widgets) |-> LabelEntry(LabelOf(widgets[j]))]

\* line 267: option_dict[normalized_opt] = opt_elem; the last widget stored
\* under a key is its value
DictElem(labels, key) ==
    SetMax({j \in 1..Len(labels) : labels[j].has /\ labels[j].norm = key})

DictItem(labels, key) == [key |-> key, elem |-> DictElem(labels, key)]

\* the widgets that insert a new key, in DOM order
DictFirsts(labels) ==
    SortedSeq({j \in 1..Len(labels) :
                /\ labels[j].has
                /\ \A m \in 1..(j - 1) : ~(labels[m].has /\ labels[m].norm = labels[j].norm)})

DictItems(labels, firsts) ==
    [n \in 1..Len(firsts) |-> DictItem(labels, labels[firsts[n]].norm)]

\* lines 245-270: option_dict, as the sequence of its items in insertion
\* order.  A key keeps the position of its first insertion.
OptionDict(widgets) == DictItems(Labels(widgets), DictFirsts(Labels(widgets)))

InDict(dict, key) == \E n \in 1..Len(dict) : dict[n].key = key
DictGet(dict, key) == dict[CHOOSE n \in 1..Len(dict) : dict[n].key = key].elem

Event(kind, c) ==
    [kind |-> kind, cont |-> c, w |-> 0, tier |-> "", elem |-> "", text |-> <<>>]
ClickEvent(c, w, tier) ==
    [kind |-> "click", cont |-> c, w |-> w, tier |-> tier, elem |-> "", text |-> <<>>]
FillEvent(c, elem, text) ==
    [kind |-> "fill", cont |-> c, w |-> 0, tier |-> "", elem |-> elem, text |-> text]

SubstringHit(a, b) == Contains(a, b) \/ Contains(b, a)

SubstringHits(na, dict) == {n \in 1..Len(dict) : SubstringHit(na, dict[n].key)}

\* lines 279-284: the first item of option_dict that matches, then break
SubstringClicks(c, na, dict) ==
    IF SubstringHits(na, dict) = {} THEN <<>>
    ELSE <<ClickEvent(c, dict[SetMin(SubstringHits(na, dict))].elem, "substring")>>

\* lines 272-284
LiveClicks(c, na, dict) ==
    IF InDict(dict, na) THEN <<ClickEvent(c, DictGet(dict, na), "exact")>>
    ELSE SubstringClicks(c, na, dict)

NormalizeAll(options) == [i \in 1..Len(options) |-> Normalize(options[i])]

\* lines 294-314: whether the option of (1-based) index i clicks
CrossHits(na, nos, nwidgets, dict) ==
    {i \in 1..Len(nos) :
        IF nos[i] = na THEN InDict(dict, nos[i]) \/ i <= nwidgets
        ELSE SubstringHit(na, nos[i]) /\ i <= nwidgets}

CrossClick(c, na, no, i, dict) ==
    IF no = na
    THEN ClickEvent(c, IF InDict(dict, no) THEN DictGet(dict, no) ELSE i, "cross_exact")
    ELSE ClickEvent(c, i, "cross_substring")

CrossFirst(c, na, nos, hits, dict) ==
    IF hits = {} THEN <<>>
    ELSE <<CrossClick(c, na, nos[SetMin(hits)], SetMin(hits), dict)>>

\* lines 287-314: the first option, in the order of options, that clicks
CrossClicks(c, na, options, widgets, dict) ==
    CrossFirst(c, na, NormalizeAll(options),
               CrossHits(na, NormalizeAll(options), Len(widgets), dict), dict)

\* `if score > best_score` over the scores in order, from best_score = floor:
\* the first index of maximal score among the scores above the floor, 0 if none
FirstBest(scores, floor) ==
    LET above == {n \in 1..Len(scores) : ScoreGt(scores[n], floor)}
        best == {n \in above : \A m \in above : ~ScoreGt(scores[m], scores[n])}
    IN  IF above = {} THEN 0 ELSE SetMin(best)

LiveScores(na, dict) == [n \in 1..Len(dict) |-> Ratio(dict[n].key, na)]

OptionScores(na, options) ==
    [i \in 1..Len(options) |-> Ratio(Normalize(options[i]), na)]

LiveBestClick(c, dict, best) ==
    IF best = 0 THEN <<>> ELSE <<ClickEvent(c, dict[best].elem, "similarity_live")>>

\* lines 322-333
SimilarityLiveClicks(c, na, dict) ==
    LiveBestClick(c, dict, FirstBest(LiveScores(na, dict), Pct(LiveFloorPct)))

OptionsBestClick(c, scores, best, nwidgets) ==
    IF best # 0 /\ ScoreGt(scores[best], Pct(OptionsFloorPct)) /\ best <= nwidgets
    THEN <<ClickEvent(c, best, "similarity_options")>>
    ELSE <<>>

\* lines 336-348; with no positive score best_idx stays 0 and best_score 0
SimilarityOptionsClicks(c, na, options, widgets) ==
    OptionsBestClick(c, OptionScores(na, options),
                     FirstBest(OptionScores(na, options), ZeroScore), Len(widgets))

OrElse(first, second) == IF first # <<>> THEN first ELSE second

\* lines 317-348
SimilarityClicks(c, na, options, widgets, dict) ==
    OrElse(SimilarityLiveClicks(c, na, dict),
           SimilarityOptionsClicks(c, na, options, widgets))

\* lines 351-354
FallbackClicksUnguarded(c, clicked, widgets) ==
    IF widgets # <<>>
    THEN <<Event("warn_fallback", c), ClickEvent(c, 1, "fallback")>>
    ELSE <<>>

FallbackClicks(c, clicked, widgets) ==
    IF ~clicked /\ widgets # <<>>
    THEN <<Event("warn_fallback", c), ClickEvent(c, 1, "fallback")>>
    ELSE <<>>

WithFallback(c, events, widgets) ==
    events \o FallbackClicks(c, events # <<>>, widgets)

\* lines 272-354: each tier runs only if no earlier tier clicked
TierClicks(c, na, options, widgets, dict) ==
    WithFallback(c,
        OrElse(LiveClicks(c, na, dict),
            OrElse(CrossClicks(c, na, options, widgets, dict),
                   SimilarityClicks(c, na, options, widgets, dict))),
        widgets)

\* the events up to the first click, which raises
RECURSIVE RaiseAtFirstClick(_, _)
RaiseAtFirstClick(events, c) ==
    IF events = <<>> THEN <<>>
    ELSE IF Head(events).kind = "click" THEN <<Event("error", c)>>
    ELSE <<Head(events)>> \o RaiseAtFirstClick(Tail(events), c)

MatchEvents(c, raises, events) ==
    IF raises = "act" THEN RaiseAtFirstClick(events, c) ELSE events

\* lines 217-358: the choice branch for the container of index c
ChoiceEvents(q, cont, c) ==
    IF cont.raises = "find" THEN <<Event("error", c)>>
    ELSE IF OptionElements(cont) = <<>> THEN <<Event("warn_no_options", c)>>
    ELSE IF cont.raises = "text" THEN <<Event("error", c)>>
    ELSE MatchEvents(c, cont.raises,
            TierClicks(c, Normalize(AnswerOf(q)), q.options,
                       OptionElements(cont), OptionDict(OptionElements(cont))))

\* lines 366-384: the element the nested find_element calls resolve to
InputElemGenericFirst(cont) ==
    IF cont.raises = "find" THEN ""
    ELSE IF "otherinput" \in cont.inputs THEN "otherinput"
    ELSE IF "textinput" \in cont.inputs THEN "textinput"
    ELSE IF "textarea" \in cont.inputs THEN "textarea"
    ELSE ""

InputElem(cont) ==
    IF cont.raises = "find" THEN ""
    ELSE IF "textinput" \in cont.inputs THEN "textinput"
    ELSE IF "textarea" \in cont.inputs THEN "textarea"
    ELSE IF "otherinput" \in cont.inputs THEN "otherinput"
    ELSE ""

\* lines 360-392: the text branch for the container of index c
TextEvents(q, cont, c) ==
    IF InputElem(cont) = "" THEN <<Event("error_no_input", c)>>
    ELSE IF cont.raises = "act" THEN <<Event("error", c)>>
    ELSE <<FillEvent(c, InputElem(cont), AnswerOf(q))>>

\* line 208: container = question_containers[idx]
ContainerIndexFirst(idx) == 1

ContainerIndex(idx) == idx

\* lines 232, 356-358, 390-392: a question that fails is reported and the
\* loop goes on
AfterQuestionPropagate(idx, events) ==
    IF \E n \in 1..Len(events) :
            events[n].kind \in {"error", "error_no_input", "warn_no_options"}
    THEN [pc |-> "raised", idx |-> idx]
    ELSE [pc |-> "loop", idx |-> idx + 1]

AfterQuestion(idx, events) == [pc |-> "loop", idx |-> idx + 1]

\* lines 189-191
QuestionContainers(pg) == IF pg.items # <<>> THEN pg.items ELSE pg.listitems

(* The inputs of fill_form: answered records and a live page.  One part  *)
(* of the inputs is a single choice question over many answers, options    *)
(* and widgets; the other is several questions over containers that        *)
(* resolve, are empty, or raise.                                           *)
MaxWidgets == 2
MaxOptions == 2
MaxFillQuestions == 2
MaxContainers == 2

Widget(text, children, aria) == [text |-> text, children |-> children, aria |-> aria]

FormWidgets ==
    { Widget(<<>>, <<>>, NoAttr),
      Widget(<<" ", "A", " ">>, <<>>, Attr(<<"b">>)),
      Widget(<<"a", "b", "c">>, <<>>, NoAttr),
      Widget(<<>>, <<<<" ">>, <<"b">>>>, NoAttr),
      Widget(<<" ">>, <<>>, Attr(<<"!">>)) }

FormOptionTexts == {<<"a">>, <<"a", "b">>, <<"a", "b", "c">>}

FormAnswers == {<<>>, <<"A", "!">>, <<" ", "a", "b">>, <<"a", "c", "b">>, <<"c">>}

Container(sel, widgets, inputs, raises) ==
    [sel |-> sel, widgets |-> widgets, inputs |-> inputs, raises |-> raises]

Answered(text, options, answer) ==
    [question_text |-> text, options |-> options, gemini_answer |-> answer]

\* one choice question, one container
MatchInputs ==
    {[questions |-> <<Answered(<<"q">>, o, a)>>,
      page |-> [items |-> <<Container(1, w, {}, "none")>>, listitems |-> <<>>]] :
        o \in (SeqsUpTo(FormOptionTexts, MaxOptions) \ {<<>>}),
        a \in FormAnswers,
        w \in SeqsUpTo(FormWidgets, MaxWidgets)}

LoopRecords ==
    { Answered(<<"q">>, <<>>, <<" ", "a", " ">>),
      Answered(<<"q">>, <<<<"a">>, <<"b">>>>, <<"b">>),
      [question_text |-> <<"q">>, options |-> <<<<"a">>>>] }

LoopContainers ==
    { Container(1, <<Widget(<<"a">>, <<>>, NoAttr), Widget(<<"b">>, <<>>, NoAttr)>>,
                {"textinput", "textarea", "otherinput"}, "none"),
      Container(2, <<Widget(<<>>, <<>>, NoAttr)>>, {"textarea", "otherinput"}, "none"),
      Container(4, <<Widget(<<"b">>, <<>>, NoAttr)>>, {"otherinput"}, "act"),
      Container(1, <<>>, {}, "none"),
      Container(3, <<Widget(<<"b">>, <<>>, NoAttr)>>, {"textinput"}, "find"),
      Container(1, <<Widget(<<"b">>, <<>>, NoAttr)>>, {"textarea"}, "text") }

LoopPages ==
    {[items |-> cs, listitems |-> <<>>] : cs \in SeqsUpTo(LoopContainers, MaxContainers)}
    \cup {[items |-> <<>>, listitems |-> <<c>>] : c \in LoopContainers}

LoopInputs ==
    {[questions |-> qs, page |-> pg] :
        qs \in (SeqsUpTo(LoopRecords, MaxFillQuestions) \ {<<>>}),
        pg \in LoopPages}

\* one choice question with more scraped options than the page shows widgets
OverflowOptions == <<<<"b", "a">>, <<"a", "b", "c">>, <<"a", "b">>>>

OverflowInputs ==
    {[questions |-> <<Answered(<<"q">>, OverflowOptions, a)>>,
      page |-> [items |-> <<Container(1, w, {}, "none")>>, listitems |-> <<>>]] :
        a \in FormAnswers,
        w \in SeqsUpTo(FormWidgets, MaxWidgets)}

FillInputs == MatchInputs \cup OverflowInputs \cup LoopInputs

InitFill ==
    /\ html = [found |-> FALSE, parses |-> FALSE, data |-> JNull]
    /\ extracted = Idle
    /\ gen = Idle
    /\ \E inp \in FillInputs :
        /\ questions = inp.questions
        /\ page = inp.page
    /\ fill = [pc |-> "start", idx |-> 1, input |-> questions, containers |-> <<>>,
               attempted |-> <<>>, log |-> <<>>, ret |-> "none"]
    /\ ui = Idle

\* lines 189-194: no question container is found
FillNoContainers ==
    /\ fill.pc = "start"
    /\ QuestionContainers(page) = <<>>
    /\ fill' = [fill EXCEPT !.pc = "done", !.ret = "False"]
    /\ UNCHANGED <<html, extracted, questions, gen, page, ui>>

\* lines 189-201: the question containers are found
FillLocate ==
    /\ fill.pc = "start"
    /\ QuestionContainers(page) # <<>>
    /\ fill' = [fill EXCEPT !.pc = "loop", !.containers = QuestionContainers(page)]
    /\ UNCHANGED <<html, extracted, questions, gen, page, ui>>

\* lines 203-392: one iteration of the loop
FillQuestion ==
    /\ fill.pc = "loop"
    /\ fill.idx <= Len(questions)
    /\ fill.idx <= Len(fill.containers)
    /\ LET q == questions[fill.idx]
           c == ContainerIndex(fill.idx)
           cont == fill.containers[c]
           events == IF q.options # <<>> THEN ChoiceEvents(q, cont, c)
                     ELSE TextEvents(q, cont, c)
           after == AfterQuestion(fill.idx, events)
       IN  fill' = [fill EXCEPT
                !.pc = after.pc,
                !.idx = after.idx,
                !.attempted = Append(@, fill.idx),
                !.log = @ \o [n \in 1..Len(events) |->
                                [rec |-> fill.idx, ev |-> events[n]]]]
    /\ UNCHANGED <<html, extracted, questions, gen, page, ui>>

\* lines 203-205 and 394-395: the records or the containers are used up
FillReturn ==
    /\ fill.pc = "loop"
    /\ fill.idx > Len(questions) \/ fill.idx > Len(fill.containers)
    /\ fill' = [fill EXCEPT !.pc = "done", !.ret = "True"]
    /\ UNCHANGED <<html, extracted, questions, gen, page, ui>>

NextFill == FillNoContainers \/ FillLocate \/ FillQuestion \/ FillReturn

SpecFill == InitFill /\ [][NextFill]_vars

----------------------------------------------------------------------------
(* One pass over a loaded form, lines 590-628: the records the extractor   *)
(* returned go through generate_answers, and the list it returns is the    *)
(* one handed to fill_form.                                                *)

PassRecords ==
    {[question_text |-> <<"a">>, options |-> <<>>],
     [question_text |-> <<"b">>, options |-> <<<<"a">>, <<"B">>>>]}

PassContainer ==
    Container(1, <<Widget(<<"a">>, <<>>, NoAttr), Widget(<<"b">>, <<>>, NoAttr)>>,
              {"textinput"}, "none")

PassPages ==
    {[items |-> cs, listitems |-> <<>>] :
        cs \in {<<>>, <<PassContainer>>, <<PassContainer, PassContainer>>}}

\* line 590-591: a non-empty list of extracted records
InitPass ==
    /\ html = [found |-> FALSE, parses |-> FALSE, data |-> JNull]
    /\ extracted = Idle
    /\ questions \in (SeqsUpTo(PassRecords, MaxGenQuestions) \ {<<>>})
    /\ gen = [pc |-> "start", idx |-> 1, input |-> questions, client |-> FALSE,
              asked |-> <<>>, replies |-> <<>>]
    /\ page = <<>>
    /\ fill = Idle
    /\ ui = Idle

\* lines 598-628: fill_form is called with the list generate_answers returned
PassToFill ==
    /\ gen.pc = "returned"
    /\ fill = Idle
    /\ page' \in PassPages
    /\ fill' = [pc |-> "start", idx |-> 1, input |-> questions, containers |-> <<>>,
                attempted |-> <<>>, log |-> <<>>, ret |-> "none"]
    /\ UNCHANGED <<html, extracted, questions, gen, ui>>

NextPass ==
    \/ GenClientOk
    \/ GenClientFails
    \/ GenAsk
    \/ GenReturn
    \/ PassToFill
    \/ FillNoContainers
    \/ FillLocate
    \/ FillQuestion
    \/ FillReturn

SpecPass == InitPass /\ [][NextPass]_vars

----------------------------------------------------------------------------
(* The Streamlit script, lines 497-662.  Every user event reruns the whole *)
(* script against the session state; an action is one rerun.  A stage is   *)
(* one block of the script: it maps the state reached so far to the state  *)
(* after the block.  Session-state keys that may be missing hold "absent". *)
(*   driver      0 for None, else the number of the browser                *)
(*   started     how many browsers initialize_browser has returned         *)
(*   quitted     the browsers on which quit() has returned                 *)
(*   rendered    the buttons the last run showed (only those can be        *)
(*               pressed)                                                  *)
(*   crashed     the exception that ended the last run, "" if none         *)

MaxBrowsers == 2

FormUrls == {"u1", "u2"}

NoQuestions == [st |-> "absent", from |-> ""]
NoneQuestions == [st |-> "None", from |-> ""]
QuestionsFrom(u) == [st |-> "list", from |-> u]

NoFill == [done |-> FALSE, nav |-> "", from |-> ""]

\* lines 497-505
FreshSession ==
    [driver |-> 0, login_status |-> "None", form_filled |-> FALSE,
     questions |-> NoQuestions, form_url |-> "absent",
     filled_screenshot |-> "absent", showing_filled_form |-> "absent",
     url_input |-> "", loc |-> "", started |-> 0, quitted |-> {},
     rendered |-> {"login"}, crashed |-> "", last_fill |-> NoFill]

Begin(s) == [s EXCEPT !.rendered = {"login"}, !.crashed = "", !.last_fill = NoFill]

Show(s, button) == [s EXCEPT !.rendered = @ \cup {button}]

Crash(s, exc) == [s EXCEPT !.crashed = exc]

\* lines 516-540: the login form is submitted with an email and a password
\* line 521: st.session_state.driver = driver
StoreDriver(s) == [s EXCEPT !.driver = s.started + 1, !.started = s.started + 1]

LoginStage(s, ev, env) ==
    IF ev # "login" THEN s
    ELSE IF ~env.init_ok THEN s
    ELSE [StoreDriver(s) EXCEPT !.login_status = env.login, !.loc = "signin"]

\* lines 544-548
ConfirmStage(s, ev) ==
    IF s.login_status # "False" THEN s
    ELSE IF ev = "confirm" THEN Show([s EXCEPT !.login_status = "True"], "confirm")
    ELSE Show(s, "confirm")

\* lines 551-560
TwoFAStage(s, ev, env) ==
    IF ~(s.login_status = "2FA" /\ s.driver # 0) THEN s
    ELSE IF ev = "check2fa" /\ env.past_signin
    THEN Show([s EXCEPT !.login_status = "True"], "check2fa")
    ELSE Show(s, "check2fa")

\* lines 571-572
StoreFormUrl(s) ==
    IF s.form_url = "absent" THEN [s EXCEPT !.form_url = s.url_input] ELSE s

\* lines 579-604: the questions of this run are in s.shown
LoadStage(s, env) ==
    IF s.questions.st = "absent"
    THEN IF env.get_raises THEN Crash(s, "WebDriverException")
         ELSE IF env.extracted
         THEN [s EXCEPT !.loc = s.url_input, !.questions = QuestionsFrom(s.url_input)]
         ELSE [s EXCEPT !.loc = s.url_input]
    ELSE s

\* lines 606-615: the display loop iterates over the questions
DisplayStage(s) ==
    IF s.crashed # "" THEN s
    ELSE IF s.questions.st = "None" THEN Crash(s, "TypeError")
    ELSE s

\* lines 620-637
FillStage(s, ev, env) ==
    IF s.crashed # "" \/ s.form_filled THEN s
    ELSE IF ev # "fill" THEN Show(s, "fill")
    ELSE IF s.form_url = "None" \/ env.get_raises
    THEN Crash(Show(s, "fill"), "WebDriverException")
    ELSE IF env.fill_ok
    THEN [Show(s, "fill") EXCEPT
            !.loc = s.form_url, !.form_filled = TRUE, !.filled_screenshot = "set",
            !.last_fill = [done |-> TRUE, nav |-> s.form_url, from |-> s.questions.from]]
    ELSE [Show(s, "fill") EXCEPT
            !.loc = s.form_url,
            !.last_fill = [done |-> TRUE, nav |-> s.form_url, from |-> s.questions.from]]

\* lines 640-648
FilledStage(s) ==
    IF s.crashed = "" /\ s.form_filled /\ s.filled_screenshot # "absent"
       /\ s.showing_filled_form # "True"
    THEN [s EXCEPT !.showing_filled_form = "True"]
    ELSE s

\* lines 562-648
FormStage(s, ev, env) ==
    IF ~(s.driver # 0 /\ s.login_status \in {"True", "2FA"})
    THEN [s EXCEPT !.url_input = ""]
    ELSE IF s.url_input = "" THEN s
    ELSE IF ev = "process" \/ s.questions.st # "absent"
    THEN FilledStage(FillStage(DisplayStage(LoadStage(
            Show(StoreFormUrl(s), "process"), env)), ev, env))
    ELSE Show(StoreFormUrl(s), "process")

\* lines 651-662
CloseStage(s, ev, env) ==
    IF s.crashed # "" \/ s.driver = 0 THEN s
    ELSE IF ev # "close" THEN Show(s, "close")
    ELSE IF env.quit_raises THEN Crash(Show(s, "close"), "WebDriverException")
    ELSE [Show(s, "close") EXCEPT
            !.quitted = @ \cup {s.driver}, !.driver = 0, !.login_status = "None",
            !.form_filled = FALSE, !.questions = NoneQuestions, !.form_url = "None",
            !.filled_screenshot = "None", !.showing_filled_form = "False"]

\* one run of the script
Rerun(s, ev, env) ==
    CloseStage(FormStage(TwoFAStage(ConfirmStage(LoginStage(Begin(s), ev, env), ev),
                                    ev, env), ev, env), ev, env)

Calm ==
    [init_ok |-> TRUE, login |-> "True", past_signin |-> FALSE, get_raises |-> FALSE,
     extracted |-> TRUE, fill_ok |-> TRUE, quit_raises |-> FALSE]

InitUI ==
    /\ html = [found |-> FALSE, parses |-> FALSE, data |-> JNull]
    /\ extracted = Idle
    /\ questions = <<>>
    /\ gen = Idle
    /\ page = <<>>
    /\ fill = Idle
    /\ ui = FreshSession

UIFrame == UNCHANGED <<html, extracted, questions, gen, page, fill>>

\* "Login to Google" is submitted with an email and a password
LoginSubmit ==
    /\ ui.started < MaxBrowsers
    /\ \E ok \in BOOLEAN, result \in {"True", "2FA", "False"} :
        ui' = Rerun(ui, "login", [Calm EXCEPT !.init_ok = ok, !.login = result])
    /\ UIFrame

\* "I'm actually logged in successfully"
ManualConfirm ==
    /\ "confirm" \in ui.rendered
    /\ ui' = Rerun(ui, "confirm", Calm)
    /\ UIFrame

\* "Take New Screenshot (for 2FA completion check)"
Check2FA ==
    /\ "check2fa" \in ui.rendered
    /\ \E past \in BOOLEAN :
        ui' = Rerun(ui, "check2fa", [Calm EXCEPT !.past_signin = past])
    /\ UIFrame

\* the Form URL field is edited
EditUrl ==
    /\ ui.driver # 0 /\ ui.login_status \in {"True", "2FA"}
    /\ \E u \in FormUrls \cup {""} :
        /\ u # ui.url_input
        /\ ui' = Rerun([ui EXCEPT !.url_input = u], "edit", Calm)
    /\ UIFrame

\* "Process Form"
ProcessForm ==
    /\ "process" \in ui.rendered
    /\ \E raises \in BOOLEAN, ex \in BOOLEAN :
        ui' = Rerun(ui, "process", [Calm EXCEPT !.get_raises = raises, !.extracted = ex])
    /\ UIFrame

\* "Fill Form with Generated Answers"
FillForm ==
    /\ "fill" \in ui.rendered
    /\ \E raises \in BOOLEAN, ok \in BOOLEAN :
        ui' = Rerun(ui, "fill", [Calm EXCEPT !.get_raises = raises, !.fill_ok = ok])
    /\ UIFrame

\* "Close Browser"
CloseBrowser ==
    /\ "close" \in ui.rendered
    /\ \E raises \in BOOLEAN :
        ui' = Rerun(ui, "close", [Calm EXCEPT !.quit_raises = raises])
    /\ UIFrame

NextUI ==
    \/ LoginSubmit
    \/ ManualConfirm
    \/ Check2FA
    \/ EditUrl
    \/ ProcessForm
    \/ FillForm
    \/ CloseBrowser

SpecUI == InitUI /\ [][NextUI]_vars

----------------------------------------------------------------------------
(* Properties of extract_questions_from_fb_data (SpecExtract).             *)

\* the raw entries, when data[1][1] is a list
PathIsList(h) ==
    /\ h.data.t = "list" /\ Len(h.data.v) >= 2
    /\ h.data.v[2].t = "list" /\ Len(h.data.v[2].v) >= 2
    /\ h.data.v[2].v[2].t = "list"

HasQuestionText(item) ==
    /\ item.t = "list" /\ Len(item.v) >= 2
    /\ item.v[2].t = "str"
    /\ \E k \in 1..Len(item.v[2].v) : item.v[2].v[k] \notin SpaceChars

\* C3: every record that is returned has a question_text that is not empty
\* and neither starts nor ends with whitespace, and a raw entry whose text is
\* missing, is no string, is empty or is whitespace only gives no record.
C3_QuestionTextNonEmptyTrimmed ==
    extracted.status = "returned" =>
        /\ \A k \in 1..Len(extracted.value) :
            LET t == extracted.value[k].question_text
            IN  t # <<>> /\ t[1] \notin SpaceChars /\ t[Len(t)] \notin SpaceChars
        /\ (html.found /\ html.parses /\ PathIsList(html)) =>
            Len(extracted.value) =
                Cardinality({k \in 1..Len(html.data.v[2].v[2].v) :
                                HasQuestionText(html.data.v[2].v[2].v[k])})

\* C4: the extractor never raises, and it returns the empty list when the
\* assignment is absent, when the literal does not parse, and when data[1][1]
\* is missing or is no list.
C4_ExtractNeverRaises ==
    /\ extracted.status # "raised"
    /\ (extracted.status = "returned"
        /\ (~html.found \/ ~html.parses \/ ~PathIsList(html)))
       => extracted.value = <<>>

----------------------------------------------------------------------------
(* Properties of generate_answers (SpecGen).                               *)

UpTo(n) == [k \in 1..n |-> k]

\* C7: a choice question whose model call returned text stores one of its
\* options: the first option equal to the (stripped) text ignoring case when
\* there is one, otherwise an option of maximal similarity to the text.
C7_AnswerIsAnOption ==
    \A k \in 1..Len(gen.replies) :
        (gen.replies[k].kind = "text" /\ questions[k].options # <<>>) =>
            LET opts == questions[k].options
                text == LowerStr(Strip(gen.replies[k].text))
                ans == questions[k].gemini_answer
                eq == {j \in 1..Len(opts) : LowerStr(opts[j]) = text}
            IN  /\ \E j \in 1..Len(opts) : opts[j] = ans
                /\ eq # {} => ans = opts[SetMin(eq)]
                /\ eq = {} =>
                    \A j \in 1..Len(opts) :
                        ~ScoreGt(Ratio(LowerStr(opts[j]), text),
                                 Ratio(LowerStr(ans), text))

\* a choice question was answered with text that equals no option
C7_Witness ==
    /\ gen.pc = "returned"
    /\ \E k \in 1..Len(gen.replies) :
        /\ gen.replies[k].kind = "text"
        /\ questions[k].options # <<>>
        /\ \A j \in 1..Len(questions[k].options) :
            LowerStr(questions[k].options[j]) # LowerStr(Strip(gen.replies[k].text))
        /\ \E j \in 1..Len(questions[k].options) :
            questions[k].options[j] = questions[k].gemini_answer

\* C8: a model call that fails leaves an answer that starts with "Error: "
\* and the later questions are still asked; generate_answers returns the
\* same records, each with an answer, also when the client cannot be made.
C8_BatchNeverAborts ==
    /\ Len(questions) = Len(gen.input)
    /\ \A k \in 1..Len(questions) :
        /\ questions[k].question_text = gen.input[k].question_text
        /\ questions[k].options = gen.input[k].options
    /\ \A k \in 1..Len(gen.replies) :
        gen.replies[k].kind # "text" =>
            HasAnswer(questions[k]) /\ StartsWith(questions[k].gemini_answer, ErrorPrefix)
    /\ gen.pc = "loop" => gen.asked = UpTo(gen.idx - 1)
    /\ gen.pc = "returned" =>
        /\ \A k \in 1..Len(questions) : HasAnswer(questions[k])
        /\ gen.client => gen.asked = UpTo(Len(questions))

\* the call for the first of two questions failed and the second was asked
C8_Witness ==
    /\ gen.pc = "returned"
    /\ Len(questions) = 2
    /\ gen.asked = <<1, 2>>
    /\ gen.replies[1].kind = "raise"
    /\ gen.replies[2].kind = "text"

----------------------------------------------------------------------------
(* Properties of fill_form (SpecFill).                                     *)

Attempted(k) == \E n \in 1..Len(fill.attempted) : fill.attempted[n] = k

\* a choice question that was processed against a container with widgets,
\* none of whose DOM calls raises
ProcessedChoice(k) ==
    /\ Attempted(k)
    /\ questions[k].options # <<>>
    /\ k <= Len(fill.containers)
    /\ fill.containers[k].raises = "none"
    /\ fill.containers[k].widgets # <<>>

ClicksOf(k) ==
    {n \in 1..Len(fill.log) : fill.log[n].rec = k /\ fill.log[n].ev.kind = "click"}

\* C1: a processed choice question whose container has a widget gets
\* exactly one click, on a widget of that container, whatever the answer.
C1_ExactlyOneClick ==
    \A k \in 1..Len(questions) :
        ProcessedChoice(k) =>
            /\ Cardinality(ClicksOf(k)) = 1
            /\ \A n \in ClicksOf(k) :
                fill.log[n].ev.w \in 1..Len(fill.containers[k].widgets)

\* an answer that matches nothing was resolved by the fallback click
C1_Witness ==
    /\ fill.pc = "done"
    /\ \E k \in 1..Len(questions) :
        /\ ProcessedChoice(k)
        /\ \E n \in ClicksOf(k) : fill.log[n].ev.tier = "fallback"

\* the widgets that stand for option i: those whose label normalizes to the
\* option, or, when no widget has that label, the widget at the option's index
WidgetsOfOption(k, i) ==
    LET labels == Labels(fill.containers[k].widgets)
        no == Normalize(questions[k].options[i])
        byLabel == {j \in 1..Len(labels) : labels[j].has /\ labels[j].norm = no}
    IN  IF byLabel # {} THEN byLabel ELSE {i} \cap (1..Len(labels))

\* C2: when the normalized answer equals a normalized option, the click goes
\* to the widget of such an option.
C2_ExactOptionPrecedence ==
    \A k \in 1..Len(questions) :
        ProcessedChoice(k) =>
            LET na == Normalize(AnswerOf(questions[k]))
                exact == {i \in 1..Len(questions[k].options) :
                            Normalize(questions[k].options[i]) = na}
                targets == UNION {WidgetsOfOption(k, i) : i \in exact}
            IN  targets # {} => \A n \in ClicksOf(k) : fill.log[n].ev.w \in targets

FailureKinds == {"error", "error_no_input", "warn_no_options"}

\* C5: once the containers are found, the records below min(records,
\* containers) are all attempted, in order, whatever fails on the way, and
\* fill_form returns True without raising.
C5_FailuresIsolated ==
    /\ fill.pc # "raised"
    /\ fill.pc = "loop" => fill.attempted = UpTo(fill.idx - 1)
    /\ (fill.pc = "done" /\ fill.containers # <<>>) =>
        /\ fill.ret = "True"
        /\ fill.attempted = UpTo(Min2(Len(questions), Len(fill.containers)))

\* the first of two questions failed and the second was attempted
C5_Witness ==
    /\ fill.pc = "done"
    /\ fill.ret = "True"
    /\ fill.attempted = <<1, 2>>
    /\ \E n \in 1..Len(fill.log) :
        fill.log[n].rec = 1 /\ fill.log[n].ev.kind \in FailureKinds
    /\ \E n \in 1..Len(fill.log) :
        fill.log[n].rec = 2 /\ fill.log[n].ev.kind \in {"click", "fill"}

\* C6: a click or a fill for record i is on an element of container i, and
\* a record beyond the containers has no effect and raises nothing.
C6_PositionalCorrespondence ==
    /\ fill.pc # "raised"
    /\ \A n \in 1..Len(fill.log) :
        /\ fill.log[n].rec <= Len(fill.containers)
        /\ fill.log[n].ev.kind \in {"click", "fill"} => fill.log[n].ev.cont = fill.log[n].rec
    /\ \A k \in 1..Len(questions) : (Attempted(k) => k <= Len(fill.containers))

\* two records were filled into two containers
C6_Witness ==
    /\ fill.pc = "done"
    /\ \E n \in 1..Len(fill.log) :
        fill.log[n].rec = 2 /\ fill.log[n].ev.kind \in {"click", "fill"}
            /\ fill.log[n].ev.cont = 2
    /\ \E n \in 1..Len(fill.log) :
        fill.log[n].rec = 1 /\ fill.log[n].ev.kind \in {"click", "fill"}

\* C10: when no live label matches the answer exactly or by substring and a
\* scraped option does, the click goes to the widget at the index of a
\* matching option, and to that of an equal option when there is one.
C10_CrossCheckExactFirst ==
    \A k \in 1..Len(questions) :
        ProcessedChoice(k) =>
            LET widgets == fill.containers[k].widgets
                dict == OptionDict(widgets)
                na == Normalize(AnswerOf(questions[k]))
                nos == NormalizeAll(questions[k].options)
                here == 1..Min2(Len(nos), Len(widgets))
                exact == {i \in here : nos[i] = na}
                sub == {i \in here : nos[i] # na /\ SubstringHit(na, nos[i])}
            IN  (~InDict(dict, na) /\ SubstringHits(na, dict) = {}) =>
                    /\ exact # {} => \A n \in ClicksOf(k) : fill.log[n].ev.w \in exact
                    /\ (exact = {} /\ sub # {}) =>
                            \A n \in ClicksOf(k) : fill.log[n].ev.w \in sub

\* the widgets that have a label, with the label's normalized form matching
\* the normalized answer by containment either way
LabelHits(k) ==
    LET labels == Labels(fill.containers[k].widgets)
        na == Normalize(AnswerOf(questions[k]))
    IN  {j \in 1..Len(labels) : labels[j].has /\ SubstringHit(na, labels[j].norm)}

LabelEquals(k) ==
    LET labels == Labels(fill.containers[k].widgets)
        na == Normalize(AnswerOf(questions[k]))
    IN  {j \in 1..Len(labels) : labels[j].has /\ labels[j].norm = na}

\* C11: when no live label equals the normalized answer and some live label
\* contains it or is contained in it, the click goes to the first widget, in
\* DOM order, that has such a label, also when widgets share a label.
C11_SubstringFirstWidget ==
    \A k \in 1..Len(questions) :
        (ProcessedChoice(k) /\ LabelEquals(k) = {} /\ LabelHits(k) # {}) =>
            \A n \in ClicksOf(k) : fill.log[n].ev.w = SetMin(LabelHits(k))

\* the exact, substring and cross-check tiers select nothing for record k
NothingMatches(k) ==
    LET na == Normalize(AnswerOf(questions[k]))
        nos == NormalizeAll(questions[k].options)
        here == 1..Min2(Len(nos), Len(fill.containers[k].widgets))
    IN  /\ LabelEquals(k) = {}
        /\ LabelHits(k) = {}
        /\ \A i \in here : nos[i] # na /\ ~SubstringHit(na, nos[i])

\* the widgets whose label scores above the live floor
LiveAbove(k) ==
    LET labels == Labels(fill.containers[k].widgets)
        na == Normalize(AnswerOf(questions[k]))
    IN  {j \in 1..Len(labels) :
            labels[j].has /\ ScoreGt(Ratio(labels[j].norm, na), Pct(LiveFloorPct))}

\* the options that have a widget at their index and score above the
\* positional floor
OptionsAbove(k) ==
    LET na == Normalize(AnswerOf(questions[k]))
        nos == NormalizeAll(questions[k].options)
        here == 1..Min2(Len(nos), Len(fill.containers[k].widgets))
    IN  {i \in here : ScoreGt(Ratio(nos[i], na), Pct(OptionsFloorPct))}

\* C12: when the exact, substring and cross-check tiers select nothing, the
\* click goes to a widget whose label scores highest among the labels above
\* 0.60; failing that to the widget at the index of an option that scores
\* highest among the options above 0.50; and to the first widget, as
\* fallback, only when no label and no option is above its floor.
C12_SimilarityFloors ==
    \A k \in 1..Len(questions) :
        (ProcessedChoice(k) /\ NothingMatches(k)) =>
            LET labels == Labels(fill.containers[k].widgets)
                na == Normalize(AnswerOf(questions[k]))
                nos == NormalizeAll(questions[k].options)
            IN  \A n \in ClicksOf(k) :
                    LET w == fill.log[n].ev.w
                    IN  IF LiveAbove(k) # {}
                        THEN /\ w \in LiveAbove(k)
                             /\ \A j \in LiveAbove(k) :
                                    ~ScoreGt(Ratio(labels[j].norm, na),
                                             Ratio(labels[w].norm, na))
                        ELSE IF OptionsAbove(k) # {}
                        THEN /\ w \in OptionsAbove(k)
                             /\ \A i \in OptionsAbove(k) :
                                    ~ScoreGt(Ratio(nos[i], na), Ratio(nos[w], na))
                        ELSE w = 1 /\ fill.log[n].ev.tier = "fallback"

\* a free-text question that was processed against a container none of
\* whose DOM calls raises
ProcessedText(k) ==
    /\ Attempted(k)
    /\ questions[k].options = <<>>
    /\ k <= Len(fill.containers)
    /\ fill.containers[k].raises = "none"

EventsOf(k, kinds) ==
    {n \in 1..Len(fill.log) : fill.log[n].rec = k /\ fill.log[n].ev.kind \in kinds}

\* the preference order of the free-text path
InputPreference == <<"textinput", "textarea", "otherinput">>

Resolving(k) ==
    {p \in 1..Len(InputPreference) : InputPreference[p] \in fill.containers[k].inputs}

\* C13: a record without options never clicks; its (stripped) answer is
\* written once, into the first of typed text input, textarea and generic
\* input that the container has; when it has none nothing is written, the
\* absence is reported once and the next question is still processed.
C13_FreeTextPath ==
    /\ \A k \in 1..Len(questions) :
        (Attempted(k) /\ questions[k].options = <<>>) => ClicksOf(k) = {}
    /\ \A k \in 1..Len(questions) :
        ProcessedText(k) =>
            IF Resolving(k) # {}
            THEN /\ Cardinality(EventsOf(k, {"fill"})) = 1
                 /\ EventsOf(k, FailureKinds) = {}
                 /\ \A n \in EventsOf(k, {"fill"}) :
                        /\ fill.log[n].ev.elem = InputPreference[SetMin(Resolving(k))]
                        /\ fill.log[n].ev.cont = k
                        /\ fill.log[n].ev.text = Strip(questions[k].gemini_answer)
            ELSE /\ EventsOf(k, {"fill"}) = {}
                 /\ Cardinality(EventsOf(k, {"error_no_input"})) = 1
                 /\ fill.pc \in {"loop", "done"}
                 /\ (fill.pc = "done" /\ k < Len(questions) /\ k < Len(fill.containers))
                        => Attempted(k + 1)

\* a free-text question found no input element, and the next one was written
\* into a textarea, the container having no typed text input
C13_Witness ==
    /\ fill.pc = "done"
    /\ ProcessedText(1) /\ Resolving(1) = {}
    /\ EventsOf(1, {"error_no_input"}) # {}
    /\ Len(questions) >= 2 /\ ProcessedText(2)
    /\ \E n \in EventsOf(2, {"fill"}) : fill.log[n].ev.elem = "textarea"

----------------------------------------------------------------------------
(* Properties of one pass (SpecPass).                                      *)

\* C14: no step changes the number or order of the records, a question_text
\* or a list of options; a step changes a record only inside
\* generate_answers and only by giving an answer to a record that has none;
\* no step of fill_form changes any record; and when generate_answers has
\* returned every record has its answer.
C14_RecordFrame ==
    /\ [][/\ Len(questions') = Len(questions)
          /\ \A k \in 1..Len(questions) :
                /\ questions'[k].question_text = questions[k].question_text
                /\ questions'[k].options = questions[k].options
                /\ questions'[k] # questions[k] =>
                        /\ gen.pc \in {"start", "loop"}
                        /\ ~HasAnswer(questions[k])
                        /\ HasAnswer(questions'[k])
          /\ fill.pc # "idle" => questions' = questions]_vars
    /\ [](gen.pc = "returned" => \A k \in 1..Len(questions) : HasAnswer(questions[k]))

\* a pass ended: two records, a free-text and a choice question, were
\* answered by the model and then filled into the form
C14_Witness ==
    /\ gen.pc = "returned"
    /\ fill.pc = "done"
    /\ Len(questions) = 2
    /\ Len(gen.replies) = 2
    /\ questions[1].options = <<>> /\ questions[2].options # <<>>
    /\ \A k \in 1..2 : gen.replies[k].kind = "text" /\ HasAnswer(questions[k])
    /\ \E n \in 1..Len(fill.log) : fill.log[n].rec = 1 /\ fill.log[n].ev.kind = "fill"
    /\ \E n \in 1..Len(fill.log) : fill.log[n].rec = 2 /\ fill.log[n].ev.kind = "click"

----------------------------------------------------------------------------
(* Properties of the Streamlit session (SpecUI).                           *)

\* C9: a browser that was started and has not been quit is the one held in
\* session state, so that "Close Browser" can still release it.
C9_NoDriverDropped ==
    \A d \in 1..ui.started : d \notin ui.quitted => ui.driver = d

\* C15: when a run calls fill_form, the URL the browser was sent to just
\* before (st.session_state.form_url) is the URL the questions being filled
\* were extracted from.
C15_FillUrlIsExtractUrl ==
    ui.last_fill.done => ui.last_fill.nav = ui.last_fill.from

\* C16: after "Close Browser" the session behaves as a fresh one: the display
\* loop never runs over a question list that is None, and fill_form is never
\* reached through a form URL that is None.
C16_CloseResetsSession ==
    /\ ui.crashed # "TypeError"
    /\ ui.last_fill.done => ui.last_fill.nav # "None"

====
